---- MODULE Spec2Model ----
(***************************************************************************)
(* Lender matching backend: parameter registry, form validation, rule      *)
(* evaluation, fit scoring and the background matching workflow.           *)
(*                                                                         *)
(* JSON values are tagged records [t, n, s, l]:                            *)
(*   t  the Python type of the decoded value (null,bool,int,float,str,list)*)
(*   n  the number: an int's value, a bool's 0/1, a float's value in tenths*)
(*   s  a str's characters, as a sequence of one-character strings         *)
(*   l  a list's elements (scalars)                                        *)
(***************************************************************************)
EXTENDS Integers, Sequences, FiniteSets, TLC

VARIABLES
    parameters,     \* parameter_definitions table: key_name -> definition
    policy_rules,   \* policies table with rules: policy id -> sequence of rules
    applications,   \* loan_applications table: id -> [form_data, status]
    match_results,  \* match_results table (committed rows)
    task,           \* background match_application task of each application
    next_rule_id,   \* next fresh rule id (uuid4 default of PolicyRule.id)
    evaluation,     \* last call of evaluate_rule: its arguments and its record
    validation,     \* last call of the form validation: arguments and verdict
    scoring,        \* last per-policy scoring of match_application
    key_rows,       \* parameter_definitions rows per key_name
    ingestion       \* process_lender_pdf runs: run -> its position and locals

vars == <<parameters, policy_rules, applications, match_results, task,
          next_rule_id, evaluation, validation, scoring, key_rows, ingestion>>

----------------------------------------------------------------------------
(* JSON values as Python sees them                                         *)

Null == [t |-> "null", n |-> 0, s |-> <<>>, l |-> <<>>]
VBool(b) == [t |-> "bool", n |-> IF b THEN 1 ELSE 0, s |-> <<>>, l |-> <<>>]
VInt(i) == [t |-> "int", n |-> i, s |-> <<>>, l |-> <<>>]
VFloat(tenths) == [t |-> "float", n |-> tenths, s |-> <<>>, l |-> <<>>]
VStr(chars) == [t |-> "str", n |-> 0, s |-> chars, l |-> <<>>]
VList(elems) == [t |-> "list", n |-> 0, s |-> <<>>, l |-> elems]

\* bool is a subclass of int in Python: True and False are numbers 1 and 0.
IsNum(v) == v.t \in {"bool", "int", "float"}

\* The numeric value, in tenths.
Num(v) == IF v.t = "float" THEN v.n ELSE 10 * v.n

\* Characters in code point order.
Alphabet == <<" ","'","(",")",",","-",".","0","1","2","3","4","5","6","7","8","9",":","A","B","C","D","E","F","G","H","I","J","K","L","M","N","O","P","Q","R","S","T","U","V","W","X","Y","Z","[","]","a","b","c","d","e","f","g","h","i","j","k","l","m","n","o","p","q","r","s","t","u","v","w","x","y","z">>

Ord(c) == CHOOSE i \in 1..Len(Alphabet) : Alphabet[i] = c

DigitChar(d) == Alphabet[8 + d]

RECURSIVE NatStr(_)
NatStr(k) == IF k < 10 THEN <<DigitChar(k)>>
             ELSE NatStr(k \div 10) \o <<DigitChar(k % 10)>>

Abs(i) == IF i < 0 THEN -i ELSE i

IntStr(i) == IF i < 0 THEN <<"-">> \o NatStr(-i) ELSE NatStr(i)

\* repr of a float with one decimal: 1.5, 700.0, -0.5
FloatStr(tenths) ==
    (IF tenths < 0 THEN <<"-">> ELSE <<>>)
        \o NatStr(Abs(tenths) \div 10) \o <<".">> \o <<DigitChar(Abs(tenths) % 10)>>

\* str() of a scalar.
ScalarStr(v) ==
    CASE v.t = "str" -> v.s
      [] v.t = "int" -> IntStr(v.n)
      [] v.t = "float" -> FloatStr(v.n)
      [] v.t = "bool" -> IF v.n = 1 THEN <<"T","r","u","e">> ELSE <<"F","a","l","s","e">>
      [] OTHER -> <<"N","o","n","e">>

\* repr() of a scalar: a str is quoted.
ScalarRepr(v) == IF v.t = "str" THEN <<"'">> \o v.s \o <<"'">> ELSE ScalarStr(v)

RECURSIVE JoinRepr(_)
JoinRepr(elems) ==
    IF elems = <<>> THEN <<>>
    ELSE IF Len(elems) = 1 THEN ScalarRepr(elems[1])
    ELSE ScalarRepr(elems[1]) \o <<",", " ">> \o JoinRepr(Tail(elems))

\* str() as the f-strings of evaluate_rule apply it.
PyStr(v) == IF v.t = "list" THEN <<"[">> \o JoinRepr(v.l) \o <<"]">>
            ELSE ScalarStr(v)

\* x == y on scalars: numbers (bools included) compare by value, strings by
\* content, None equals None, any other pair of types is unequal.
ScalarEq(a, b) ==
    IF IsNum(a) /\ IsNum(b) THEN Num(a) = Num(b)
    ELSE IF a.t = "str" /\ b.t = "str" THEN a.s = b.s
    ELSE a.t = "null" /\ b.t = "null"

PyEq(a, b) ==
    IF a.t = "list" /\ b.t = "list"
    THEN /\ Len(a.l) = Len(b.l)
         /\ \A i \in 1..Len(a.l) : ScalarEq(a.l[i], b.l[i])
    ELSE IF a.t = "list" \/ b.t = "list" THEN FALSE
    ELSE ScalarEq(a, b)

RECURSIVE StrCmp(_, _)
StrCmp(x, y) ==
    IF x = <<>> /\ y = <<>> THEN "eq"
    ELSE IF x = <<>> THEN "lt"
    ELSE IF y = <<>> THEN "gt"
    ELSE IF Ord(x[1]) < Ord(y[1]) THEN "lt"
    ELSE IF Ord(x[1]) > Ord(y[1]) THEN "gt"
    ELSE StrCmp(Tail(x), Tail(y))

\* Ordering of two scalars: "lt", "eq", "gt", or "TypeError" when Python
\* refuses to order them (str against number, None against anything).
ScalarCmp(a, b) ==
    IF IsNum(a) /\ IsNum(b)
    THEN (IF Num(a) < Num(b) THEN "lt" ELSE IF Num(a) > Num(b) THEN "gt" ELSE "eq")
    ELSE IF a.t = "str" /\ b.t = "str" THEN StrCmp(a.s, b.s)
    ELSE "TypeError"

RECURSIVE ListCmp(_, _)
ListCmp(x, y) ==
    IF x = <<>> /\ y = <<>> THEN "eq"
    ELSE IF x = <<>> THEN "lt"
    ELSE IF y = <<>> THEN "gt"
    ELSE IF ScalarEq(x[1], y[1]) THEN ListCmp(Tail(x), Tail(y))
    ELSE ScalarCmp(x[1], y[1])

PyCmp(a, b) ==
    IF a.t = "list" /\ b.t = "list" THEN ListCmp(a.l, b.l)
    ELSE IF a.t = "list" \/ b.t = "list" THEN "TypeError"
    ELSE ScalarCmp(a, b)

\* x in y for two strings: x is a substring of y.
IsSubstring(x, y) ==
    \E i \in 0..(Len(y) - Len(x)) : SubSeq(y, i + 1, i + Len(x)) = x

Truth(b) == IF b THEN "true" ELSE "false"

----------------------------------------------------------------------------
(* Rule evaluation: services/matching_service.py, evaluate_rule            *)

RuleOperator == {"gt", "lt", "eq", "neq", "gte", "lte", "in", "contains"}
RuleType == {"eligibility", "scoring"}

\* The characters of a parameter key (keys of the model's registry).
KeyChars(k) ==
    CASE k = "fico" -> <<"f","i","c","o">>
      [] k = "btype" -> <<"b","t","y","p","e">>
      [] k = "region" -> <<"r","e","g","i","o","n">>
      [] OTHER -> <<"k","e","y">>

\* RuleOperator.value
OpChars(op) ==
    CASE op = "gt" -> <<"g","t">>
      [] op = "lt" -> <<"l","t">>
      [] op = "eq" -> <<"e","q">>
      [] op = "neq" -> <<"n","e","q">>
      [] op = "gte" -> <<"g","t","e">>
      [] op = "lte" -> <<"l","t","e">>
      [] op = "in" -> <<"i","n">>
      [] OTHER -> <<"c","o","n","t","a","i","n","s">>

MissingPrefix == <<"M","i","s","s","i","n","g"," ","r","e","q","u","i","r","e","d"," ","f","i","e","l","d",":"," ">>
DoesNotMeet == <<" ","d","o","e","s"," ","n","o","t"," ","m","e","e","t"," ","r","e","q","u","i","r","e","m","e","n","t"," ","(">>

\* form_data.get(parameter_key): None when the key is absent.
DictGet(form_data, key) ==
    IF key \in DOMAIN form_data THEN form_data[key] ELSE Null

\* param_labels.get(parameter_key, parameter_key)
LabelOf(param_labels, key) ==
    IF key \in DOMAIN param_labels THEN param_labels[key] ELSE KeyChars(key)

\* The operator chain of evaluate_rule: "true", "false", or "TypeError" when
\* the Python expression raises.
ApplyOperator(operator, actual, threshold) ==
    LET c == PyCmp(actual, threshold) IN
    CASE operator = "gt" -> IF c = "TypeError" THEN c ELSE Truth(c = "gt")
      [] operator = "lt" -> IF c = "TypeError" THEN c ELSE Truth(c = "lt")
      [] operator = "eq" -> Truth(PyEq(actual, threshold))
      [] operator = "neq" -> Truth(~PyEq(actual, threshold))
      [] operator = "gte" -> IF c = "TypeError" THEN c ELSE Truth(c \in {"gt", "eq"})
      [] operator = "lte" -> IF c = "TypeError" THEN c ELSE Truth(c \in {"lt", "eq"})
      [] operator = "in" ->
            \* actual_value in threshold_value
            IF threshold.t = "list"
            THEN Truth(\E i \in 1..Len(threshold.l) : PyEq(actual, threshold.l[i]))
            ELSE IF threshold.t = "str"
            THEN (IF actual.t = "str" THEN Truth(IsSubstring(actual.s, threshold.s))
                  ELSE "TypeError")
            ELSE "TypeError"
      [] OTHER ->
            \* threshold_value in str(actual_value)
            IF threshold.t = "str"
            THEN Truth(IsSubstring(threshold.s, PyStr(actual)))
            ELSE "TypeError"

\* A try block without its except clause: the error leaves evaluate_rule.
TryOperatorUncaught(operator, actual, threshold) ==
    LET r == ApplyOperator(operator, actual, threshold) IN
    [passed |-> r = "true", raised |-> r = "TypeError"]

\* try: ... except Exception: passed = False. Nothing is raised further.
TryOperator(operator, actual, threshold) ==
    LET r == ApplyOperator(operator, actual, threshold) IN
    [passed |-> IF r = "TypeError" THEN FALSE ELSE r = "true", raised |-> FALSE]

\* The missing-field record with the rule's authored reason preferred.
MissingRecordAuthored(rule, param_labels) ==
    [rule_id |-> rule.id,
     parameter_key |-> rule.parameter_key,
     parameter_label |-> LabelOf(param_labels, rule.parameter_key),
     operator |-> rule.operator,
     passed |-> FALSE,
     actual_value |-> Null,
     threshold_value |-> rule.value_comparison,
     failure_reason |->
        IF rule.failure_reason.t = "str" THEN rule.failure_reason
        ELSE VStr(MissingPrefix \o LabelOf(param_labels, rule.parameter_key))]

\* The record returned when actual_value is None.
MissingRecord(rule, param_labels) ==
    [rule_id |-> rule.id,
     parameter_key |-> rule.parameter_key,
     parameter_label |-> LabelOf(param_labels, rule.parameter_key),
     operator |-> rule.operator,
     passed |-> FALSE,
     actual_value |-> Null,
     threshold_value |-> rule.value_comparison,
     failure_reason |->
        VStr(MissingPrefix \o LabelOf(param_labels, rule.parameter_key))]

\* Truthiness of rule.failure_reason: None and "" are falsy.
Truthy(reason) == reason.t = "str" /\ reason.s # <<>>

evaluate_rule(rule, form_data, param_labels) ==
    LET parameter_key == rule.parameter_key
        actual_value == DictGet(form_data, parameter_key)
        threshold_value == rule.value_comparison
        operator == rule.operator
        label == LabelOf(param_labels, parameter_key)
        passed == TryOperator(operator, actual_value, threshold_value).passed
        failure_reason ==
            IF ~passed /\ Truthy(rule.failure_reason) THEN rule.failure_reason
            ELSE IF ~passed
            THEN VStr(label \o <<":", " ">> \o PyStr(actual_value) \o DoesNotMeet
                      \o OpChars(operator) \o <<" ">> \o PyStr(threshold_value)
                      \o <<")">>)
            ELSE Null
    IN  IF actual_value.t = "null"
        THEN MissingRecord(rule, param_labels)
        ELSE [rule_id |-> rule.id,
              parameter_key |-> parameter_key,
              parameter_label |-> label,
              operator |-> operator,
              passed |-> passed,
              actual_value |-> actual_value,
              threshold_value |-> threshold_value,
              failure_reason |-> failure_reason]

\* Whether the call leaves evaluate_rule by an exception.
evaluate_rule_raises(rule, form_data) ==
    LET actual_value == DictGet(form_data, rule.parameter_key) IN
    /\ actual_value.t # "null"
    /\ TryOperator(rule.operator, actual_value, rule.value_comparison).raised

----------------------------------------------------------------------------
(* Binary floating point: the float arithmetic of line 85,                 *)
(*     int((total_score / max_score) * 100)                                *)
(* A positive float is [bits, exp]: MantissaBits bits, most significant    *)
(* first and leading bit 1, with value bits[1].bits[2]... * 2^exp.         *)
(* Results are rounded to nearest, ties to even.                           *)

MantissaBits == 53

FloatZero == [bits |-> <<>>, exp |-> 0]

Floats == [bits : Seq({0, 1}), exp : Int]

RECURSIVE Pow2(_)
Pow2(k) == IF k = 0 THEN 1 ELSE 2 * Pow2(k - 1)

\* The largest k with b * 2^k <= a, for a >= b > 0.
RECURSIVE ShiftsBelow(_, _)
ShiftsBelow(a, b) == IF 2 * b <= a THEN 1 + ShiftsBelow(a, 2 * b) ELSE 0

\* The smallest k with a * 2^k >= b, for 0 < a.
RECURSIVE ShiftsUpTo(_, _)
ShiftsUpTo(a, b) == IF a >= b THEN 0 ELSE 1 + ShiftsUpTo(2 * a, b)

\* k quotient bits of r / d by long division, for r < 2 * d.
LongDiv[r \in Nat, d \in Nat, k \in Nat] ==
    IF k = 0 THEN <<>>
    ELSE LET b == IF r >= d THEN 1 ELSE 0
         IN  <<b>> \o LongDiv[2 * (r - b * d), d, k - 1]

\* Twice the remainder left after those k bits.
LongRem[r \in Nat, d \in Nat, k \in Nat] ==
    IF k = 0 THEN r
    ELSE LET b == IF r >= d THEN 1 ELSE 0
         IN  LongRem[2 * (r - b * d), d, k - 1]

\* bits + 1, as [bits, carry]: carry 1 when every bit was 1. The last 0
\* becomes 1 and the 1s after it become 0.
Increment[bits \in Seq({0, 1})] ==
    LET zeros == {i \in 1..Len(bits) : bits[i] = 0} IN
    IF zeros = {} THEN [bits |-> [i \in 1..Len(bits) |-> 0], carry |-> 1]
    ELSE LET z == CHOOSE i \in zeros : \A j \in zeros : j <= i
         IN  [bits |-> [i \in 1..Len(bits) |->
                           IF i < z THEN bits[i] ELSE IF i = z THEN 1 ELSE 0],
              carry |-> 0]

\* Round a mantissa up by one unit in the last place.
RoundUp[bits \in Seq({0, 1}), exp \in Int] ==
    LET r == Increment[bits] IN
    IF r.carry = 1
    THEN [bits |-> <<1>> \o SubSeq(r.bits, 1, Len(bits) - 1), exp |-> exp + 1]
    ELSE [bits |-> r.bits, exp |-> exp]

\* a / b for integers a >= 0, b > 0, correctly rounded.
FloatDiv[a \in Nat, b \in Nat] ==
    IF a = 0 THEN FloatZero
    ELSE LET up == IF a >= b THEN ShiftsBelow(a, b) ELSE 0
             down == IF a >= b THEN 0 ELSE ShiftsUpTo(a, b)
             r0 == a * Pow2(down)
             d == b * Pow2(up)
             bits == LongDiv[r0, d, MantissaBits]
             rest == LongRem[r0, d, MantissaBits]
             exp == up - down
         IN  IF rest > d \/ (rest = d /\ bits[MantissaBits] = 1)
             THEN RoundUp[bits, exp]
             ELSE [bits |-> bits, exp |-> exp]

\* The binary digits of k > 0, least significant first.
RECURSIVE NatBitsLow(_)
NatBitsLow(k) == IF k = 0 THEN <<>> ELSE <<k % 2>> \o NatBitsLow(k \div 2)

\* low (least significant bit first) times c plus carry, least significant
\* bit first.
MulLow[low \in Seq({0, 1}), c \in Nat, carry \in Nat] ==
    IF low = <<>> THEN NatBitsLow(carry)
    ELSE LET x == low[1] * c + carry
         IN  <<x % 2>> \o MulLow[Tail(low), c, x \div 2]

Reverse[s \in Seq({0, 1})] == [i \in 1..Len(s) |-> s[Len(s) + 1 - i]]

\* The MantissaBits leading bits of a longer product, rounded by the bits
\* dropped.
RoundProduct[product \in Seq({0, 1}), exp \in Int] ==
    LET extra == Len(product) - MantissaBits
        kept == SubSeq(product, 1, MantissaBits)
        guard == extra > 0 /\ product[MantissaBits + 1] = 1
        sticky == \E i \in 2..extra : product[MantissaBits + i] = 1
    IN  IF guard /\ (sticky \/ kept[MantissaBits] = 1)
        THEN RoundUp[kept, exp + extra]
        ELSE [bits |-> kept, exp |-> exp + extra]

\* f * c for a float f >= 0 and an integer c > 0, correctly rounded.
FloatMulInt[f \in Floats, c \in Nat] ==
    IF f.bits = <<>> THEN FloatZero
    ELSE RoundProduct[Reverse[MulLow[Reverse[f.bits], c, 0]], f.exp]

BitsToNat[bits \in Seq({0, 1})] ==
    IF bits = <<>> THEN 0
    ELSE 2 * BitsToNat[SubSeq(bits, 1, Len(bits) - 1)] + bits[Len(bits)]

\* int(f) for a float f >= 0: the integer part.
FloatToInt[f \in Floats] ==
    IF f.bits = <<>> \/ f.exp < 0 THEN 0
    ELSE IF f.exp + 1 <= MantissaBits
    THEN BitsToNat[SubSeq(f.bits, 1, f.exp + 1)]
    ELSE BitsToNat[f.bits] * Pow2(f.exp + 1 - MantissaBits)

\* int((total_score / max_score) * 100) for max_score > 0; int() truncates
\* toward zero, so the sign is applied to the truncated magnitude.
FloatPercent(total_score, max_score) ==
    LET magnitude == FloatToInt[FloatMulInt[FloatDiv[Abs(total_score), max_score], 100]]
    IN  IF total_score < 0 THEN -magnitude ELSE magnitude

----------------------------------------------------------------------------
(* Per-policy scoring: the body of the loop over policies in               *)
(* match_application (lines 63-96)                                         *)

\* The records appended in the reverse of the rule order.
EvaluationsReversed(rules, form_data, param_labels) ==
    [i \in 1..Len(rules) |->
        evaluate_rule(rules[Len(rules) + 1 - i], form_data, param_labels)]

\* evaluations, in the order of policy.rules
Evaluations(rules, form_data, param_labels) ==
    [i \in 1..Len(rules) |-> evaluate_rule(rules[i], form_data, param_labels)]

\* An eligibility flag that any failed rule clears, whatever its type.
EligibleAnyType(rules, evaluations) ==
    ~\E i \in 1..Len(rules) : ~evaluations[i].passed

\* eligible starts True; a failed eligibility rule sets it False.
Eligible(rules, evaluations) ==
    ~\E i \in 1..Len(rules) :
        rules[i].rule_type = "eligibility" /\ ~evaluations[i].passed

\* max_score: the weights of the scoring rules, summed.
RECURSIVE MaxScore(_)
MaxScore(rules) ==
    IF rules = <<>> THEN 0
    ELSE (IF rules[1].rule_type = "scoring" THEN rules[1].weight ELSE 0)
         + MaxScore(Tail(rules))

\* total_score: the weights of the passed scoring rules, summed.
RECURSIVE TotalScore(_, _)
TotalScore(rules, evaluations) ==
    IF rules = <<>> THEN 0
    ELSE (IF rules[1].rule_type = "scoring" /\ evaluations[1].passed
          THEN rules[1].weight ELSE 0)
         + TotalScore(Tail(rules), Tail(evaluations))

\* Lines 84-87.
FitScore(total_score, max_score, eligible) ==
    IF max_score > 0 THEN FloatPercent(total_score, max_score)
    ELSE IF eligible THEN 100 ELSE 0

\* One iteration of the loop: the MatchResult built for one policy. raised
\* tells that evaluate_rule raised and the loop was left by the exception.
ScorePolicy(policy_id, rules, application_id, form_data, param_labels) ==
    LET evaluations == Evaluations(rules, form_data, param_labels)
        eligible == Eligible(rules, evaluations)
        total_score == TotalScore(rules, evaluations)
        max_score == MaxScore(rules)
    IN  [application_id |-> application_id,
         policy_id |-> policy_id,
         eligible |-> eligible,
         fit_score |-> FitScore(total_score, max_score, eligible),
         evaluations |-> evaluations]

PolicyRaises(rules, form_data) ==
    \E i \in 1..Len(rules) : evaluate_rule_raises(rules[i], form_data)

----------------------------------------------------------------------------
(* Form validation: utils/validators.py                                    *)

DataType == {"string", "number", "boolean", "select", "currency"}

\* An integer or floating-point scalar: int or float, bool excluded.
IsIntOrFloatStrict(value) == value.t \in {"int", "float"}

\* isinstance(value, (int, float)): bool is a subclass of int.
IsIntOrFloat(value) == value.t \in {"bool", "int", "float"}

validate_type(value, expected_type) ==
    IF expected_type \in {"string", "select"} THEN value.t = "str"
    ELSE IF expected_type \in {"number", "currency"} THEN IsIntOrFloat(value)
    ELSE IF expected_type = "boolean" THEN value.t = "bool"
    ELSE TRUE

\* The options column (JSONB, nullable) of a definition:
\*   isnull     the column is NULL
\*   nkeys      the number of keys of the dict
\*   hasvalues  the dict has the key 'values'
\*   values     what is stored under 'values'
NoOptions == [isnull |-> TRUE, nkeys |-> 0, hasvalues |-> FALSE, values |-> Null]
EmptyOptions == [isnull |-> FALSE, nkeys |-> 0, hasvalues |-> FALSE, values |-> Null]
ValuesOptions(list) == [isnull |-> FALSE, nkeys |-> 1, hasvalues |-> TRUE, values |-> VList(list)]
OtherKeyOptions == [isnull |-> FALSE, nkeys |-> 1, hasvalues |-> FALSE, values |-> Null]

\* Truthiness of param.options: None and {} are falsy.
OptionsTruthy(options) == ~options.isnull /\ options.nkeys > 0

\* param.options.get('values', [])
AllowedValues(options) ==
    IF options.hasvalues THEN options.values ELSE VList(<<>>)

\* value in allowed_values
InAllowed(value, allowed) ==
    /\ allowed.t = "list"
    /\ \E i \in 1..Len(allowed.l) : PyEq(value, allowed.l[i])

\* Lines 48-54: the membership check is skipped when options is falsy.
SelectOk(value, param) ==
    (param.data_type = "select" /\ OptionsTruthy(param.options))
        => InAllowed(value, AllowedValues(param.options))

\* One iteration of the loop over form_data.items(): no HTTPException.
FieldAccepted(key, value, param_dict) ==
    /\ key \in DOMAIN param_dict
    /\ validate_type(value, param_dict[key].data_type)
    /\ SelectOk(value, param_dict[key])

\* A validation that reads every definition, active or not.
AllParams(params) == params

\* A label map of the active definitions only.
ParamLabelsActive(params) ==
    [k \in {k \in DOMAIN params : params[k].is_active} |-> params[k].display_label]

\* The active definitions, by key: select ... where is_active == True.
ActiveParams(params) ==
    [k \in {k \in DOMAIN params : params[k].is_active} |-> params[k]]

\* validate_form_data returns (TRUE) or raises HTTPException 400 (FALSE).
validate_form_data(form_data, params) ==
    \A key \in DOMAIN form_data :
        FieldAccepted(key, form_data[key], ActiveParams(params))

----------------------------------------------------------------------------
(* The data the model runs on                                              *)

sFICO == <<"F","I","C","O">>
sType == <<"T","y","p","e">>
sRegion == <<"R","e","g","i","o","n">>
sRetail == <<"R","e","t","a","i","l">>
sTrucking == <<"T","r","u","c","k","i","n","g">>
sOther == <<"O","t","h","e","r">>
sLow == <<"l","o","w">>

ParamDef(key, label, type, options, active) ==
    [key_name |-> key, display_label |-> label, data_type |-> type,
     options |-> options, is_active |-> active]

\* The registry after seeding (seed_parameters.py): a number and a select
\* with its options, and a select created without options.
Registry ==
    [k \in {"fico", "btype", "region"} |->
        CASE k = "fico" -> ParamDef("fico", sFICO, "number", NoOptions, TRUE)
          [] k = "btype" -> ParamDef("btype", sType, "select",
                                     ValuesOptions(<<VStr(sTrucking), VStr(sRetail)>>), TRUE)
          [] OTHER -> ParamDef("region", sRegion, "select", NoOptions, TRUE)]

\* param_labels = {p.key_name: p.display_label for p in parameters}
ParamLabels(params) == [k \in DOMAIN params |-> params[k].display_label]

Rule(id, key, operator, value, type, weight, reason) ==
    [id |-> id, parameter_key |-> key, operator |-> operator,
     value_comparison |-> value, rule_type |-> type, weight |-> weight,
     failure_reason |-> reason]

NoCall == [called |-> FALSE]

EmptyMap == [x \in {} |-> 0]

----------------------------------------------------------------------------
(* EvalSpec: evaluate_rule applied to drawn rules and form data            *)

\* Every operator against thresholds of every JSON type, with no authored
\* failure_reason, an authored one and an empty one.
EvalRules ==
    {Rule(1, key, op, th, "eligibility", 0, reason) :
        key \in {"fico", "btype"}, op \in RuleOperator,
        th \in {VInt(650), VInt(5), VFloat(6505), VStr(sRetail), VStr(<<"5">>), VBool(TRUE),
                VList(<<VStr(sRetail), VInt(700)>>), Null},
        reason \in {Null, VStr(sLow), VStr(<<>>)}}

\* form_data as the JSONB column can hold it: str, int, float and bool
\* values, which the form validation admits, and a null, which it does not.
EvalForms ==
    {EmptyMap}
    \cup {[k \in {"fico"} |-> v] :
            v \in {VInt(700), VInt(0), VFloat(6505), VBool(TRUE), VBool(FALSE), Null}}
    \cup {[k \in {"btype"} |-> v] : v \in {VStr(sRetail), VStr(<<>>)}}
    \cup {[k \in {"fico", "btype"} |-> IF k = "fico" THEN VInt(150) ELSE VStr(sOther)]}

EvalInit ==
    /\ parameters = Registry
    /\ policy_rules = EmptyMap
    /\ applications = EmptyMap
    /\ match_results = {}
    /\ task = EmptyMap
    /\ key_rows = [k \in DOMAIN parameters |-> 1]
    /\ ingestion = EmptyMap
    /\ next_rule_id = 1
    /\ validation = NoCall
    /\ scoring = NoCall
    /\ \E rule \in EvalRules, form_data \in EvalForms :
          evaluation = [called |-> FALSE, rule |-> rule, form_data |-> form_data,
                        record |-> Null]

\* One call of evaluate_rule with the labels match_application passes.
Evaluate ==
    /\ ~evaluation.called
    /\ evaluation' = [evaluation EXCEPT
          !.called = TRUE,
          !.record = evaluate_rule(evaluation.rule, evaluation.form_data,
                                   ParamLabels(parameters))]
    /\ UNCHANGED <<parameters, key_rows, ingestion, policy_rules, applications, match_results, task,
                   next_rule_id, validation, scoring>>

EvalSpec == EvalInit /\ [][Evaluate]_vars

\* C4: whatever the operator, when rule.parameter_key is not a key of
\* form_data the record has passed = false, actual_value = null and
\* failure_reason = "Missing required field: " followed by the parameter's
\* display label, even if the rule has an authored failure_reason.
C4_MissingKeyFails ==
    (evaluation.called /\ evaluation.rule.parameter_key \notin DOMAIN evaluation.form_data)
    => /\ evaluation.record.passed = FALSE
       /\ evaluation.record.actual_value = Null
       /\ evaluation.record.failure_reason =
             VStr(MissingPrefix \o parameters[evaluation.rule.parameter_key].display_label)

C4_Witness ==
    /\ evaluation.called
    /\ evaluation.rule.parameter_key \notin DOMAIN evaluation.form_data
    /\ evaluation.rule.operator = "contains"
    /\ evaluation.rule.failure_reason = VStr(sLow)
    /\ evaluation.record.failure_reason = VStr(MissingPrefix \o sFICO)

EvaluatedActual == evaluation.form_data[evaluation.rule.parameter_key]

EvaluatedOnPresentKey(operator) ==
    /\ evaluation.called
    /\ evaluation.rule.operator = operator
    /\ evaluation.rule.parameter_key \in DOMAIN evaluation.form_data

\* C19: for an 'in' rule whose parameter key is present in form_data, passed
\* is true exactly when value_comparison is a list and the actual value equals
\* one of its elements; a value_comparison that is not a list (a string, a
\* number) never passes.
C19_InIsListMembership ==
    EvaluatedOnPresentKey("in") =>
        LET threshold == evaluation.rule.value_comparison IN
        evaluation.record.passed <=>
            /\ threshold.t = "list"
            /\ \E i \in 1..Len(threshold.l) : PyEq(EvaluatedActual, threshold.l[i])

\* C20: for a 'contains' rule whose parameter key is present in form_data and
\* whose value_comparison is a scalar of any type, passed is true exactly when
\* the string form of value_comparison is a substring of the string form of
\* the actual value (threshold 5 against actual 150 passes).
C20_ContainsIsSubstringOfStringForms ==
    (EvaluatedOnPresentKey("contains")
        /\ evaluation.rule.value_comparison.t \in {"bool", "int", "float", "str"})
    => (evaluation.record.passed <=>
            IsSubstring(PyStr(evaluation.rule.value_comparison), PyStr(EvaluatedActual)))

EvaluatedOperatorResult ==
    ApplyOperator(evaluation.rule.operator, EvaluatedActual, evaluation.rule.value_comparison)

SynthesizedReason ==
    VStr(parameters[evaluation.rule.parameter_key].display_label \o <<":", " ">>
         \o PyStr(EvaluatedActual) \o DoesNotMeet \o OpChars(evaluation.rule.operator)
         \o <<" ">> \o PyStr(evaluation.rule.value_comparison) \o <<")">>)

\* C27: for a rule whose parameter key is present in form_data with a value
\* that is not null, failure_reason is null exactly when passed is true; when
\* passed is false it is the rule's authored failure_reason if the rule has
\* one, the empty string included, and the synthesized text otherwise.
C27_FailureReasonPrecedence ==
    (evaluation.called /\ evaluation.rule.parameter_key \in DOMAIN evaluation.form_data
        /\ EvaluatedActual # Null)
    => /\ (evaluation.record.failure_reason = Null) <=> evaluation.record.passed
       /\ ~evaluation.record.passed =>
             evaluation.record.failure_reason =
                IF evaluation.rule.failure_reason.t = "str"
                THEN evaluation.rule.failure_reason
                ELSE SynthesizedReason

----------------------------------------------------------------------------
(* Policy rule editing: routers/policies.py, and the rules a policy gets   *)
(* from ingestion: services/ingestion_service.py                           *)

MaxRules == 2       \* rules per policy
MaxRuleIds == 4     \* rule ids handed out

\* PolicyRule(policy_id=..., **rule_data.model_dump()): the rows get fresh ids.
WithIds(rules_in, first_id) ==
    [i \in 1..Len(rules_in) |-> [rules_in[i] EXCEPT !.id = first_id + i - 1]]

\* A rules table without the foreign key on parameter_key.
KeysUnchecked(rules_in) == TRUE

\* parameter_key is a foreign key to parameter_definitions.key_name.
KeysResolve(rules_in) ==
    \A i \in 1..Len(rules_in) : rules_in[i].parameter_key \in DOMAIN parameters

\* PUT /policies/{policy_id}/rules: delete the policy's rules, insert the
\* given ones, commit.
update_policy_rules(policy_id, rules_in) ==
    /\ policy_id \in DOMAIN policy_rules
    /\ KeysResolve(rules_in)
    /\ next_rule_id + Len(rules_in) <= MaxRuleIds + 1
    /\ policy_rules' = [policy_rules EXCEPT ![policy_id] = WithIds(rules_in, next_rule_id)]
    /\ next_rule_id' = next_rule_id + Len(rules_in)
    /\ UNCHANGED <<parameters, key_rows, applications, match_results, task, evaluation, validation>>

\* POST /policies/{policy_id}/rules: insert one rule, commit.
add_single_rule(policy_id, rule_in) ==
    /\ policy_id \in DOMAIN policy_rules
    /\ KeysResolve(<<rule_in>>)
    /\ Len(policy_rules[policy_id]) < MaxRules
    /\ next_rule_id + 1 <= MaxRuleIds + 1
    /\ policy_rules' = [policy_rules EXCEPT
          ![policy_id] = @ \o WithIds(<<rule_in>>, next_rule_id)]
    /\ next_rule_id' = next_rule_id + 1
    /\ UNCHANGED <<parameters, key_rows, applications, match_results, task, evaluation, validation>>

\* process_lender_pdf, lines 138-161: a new policy with the extracted rules
\* (weight = rule_data.get("weight", 0), whatever integer was extracted).
ingest_policy(policy_id, rules_in) ==
    /\ policy_id \notin DOMAIN policy_rules
    /\ KeysResolve(rules_in)
    /\ next_rule_id + Len(rules_in) <= MaxRuleIds + 1
    /\ policy_rules' = [p \in DOMAIN policy_rules \cup {policy_id} |->
          IF p = policy_id THEN WithIds(rules_in, next_rule_id) ELSE policy_rules[p]]
    /\ next_rule_id' = next_rule_id + Len(rules_in)
    /\ UNCHANGED <<parameters, key_rows, applications, match_results, task, evaluation, validation>>

----------------------------------------------------------------------------
(* ScoreSpec: one policy, its rules edited and scored                      *)

\* The weights are ones the editing endpoints accept: weight is declared int,
\* without a lower bound.
\* Rule shapes: against fico = 700 a threshold of 650 passes and one of 800
\* fails.
ScoreRuleShapes ==
    {Rule(0, "fico", "gte", VInt(650), "scoring", w, Null) : w \in {0, 10, 29}}
    \cup {Rule(0, "fico", "gte", VInt(800), "scoring", w, Null) : w \in {-5, 0, 5, 21}}
    \cup {Rule(0, "fico", "gte", VInt(650), "eligibility", 10, Null),
          Rule(0, "fico", "gte", VInt(800), "eligibility", 0, Null)}

RECURSIVE SeqsUpTo(_, _)
SeqsUpTo(S, n) ==
    IF n = 0 THEN {<<>>}
    ELSE LET shorter == SeqsUpTo(S, n - 1)
         IN  shorter \cup {Append(q, x) : q \in {r \in shorter : Len(r) = n - 1}, x \in S}

ScoreRuleLists == SeqsUpTo(ScoreRuleShapes, MaxRules)

ScoreForms == {[k \in {"fico"} |-> VInt(700)], EmptyMap}

ScorePolicyIds == {1}

ScoreInit ==
    /\ parameters = Registry
    /\ policy_rules = EmptyMap
    /\ applications = EmptyMap
    /\ match_results = {}
    /\ task = EmptyMap
    /\ key_rows = [k \in DOMAIN parameters |-> 1]
    /\ ingestion = EmptyMap
    /\ next_rule_id = 1
    /\ evaluation = NoCall
    /\ validation = NoCall
    /\ scoring = NoCall

\* scoring holds the scoring of the policy's current rules: an edit clears it.
ScoreIngest ==
    \E p \in ScorePolicyIds, rules_in \in ScoreRuleLists :
        ingest_policy(p, rules_in) /\ scoring' = NoCall /\ UNCHANGED ingestion

ScoreUpdatePolicyRules ==
    \E p \in ScorePolicyIds, rules_in \in ScoreRuleLists :
        update_policy_rules(p, rules_in) /\ scoring' = NoCall /\ UNCHANGED ingestion

ScoreAddSingleRule ==
    \E p \in ScorePolicyIds, rule_in \in ScoreRuleShapes :
        add_single_rule(p, rule_in) /\ scoring' = NoCall /\ UNCHANGED ingestion

\* One iteration of match_application's loop over the policies.
ScoreMatch ==
    \E p \in DOMAIN policy_rules, form_data \in ScoreForms :
        /\ scoring' = [called |-> TRUE,
                       rules |-> policy_rules[p],
                       form_data |-> form_data,
                       result |-> ScorePolicy(p, policy_rules[p], 1, form_data,
                                              ParamLabels(parameters))]
        /\ UNCHANGED <<parameters, key_rows, ingestion, policy_rules, applications, match_results, task,
                       next_rule_id, evaluation, validation>>

ScoreNext ==
    \/ ScoreIngest
    \/ ScoreUpdatePolicyRules
    \/ ScoreAddSingleRule
    \/ ScoreMatch

ScoreSpec == ScoreInit /\ [][ScoreNext]_vars

ScoredRules == scoring.rules
ScoredPassed(i) == scoring.result.evaluations[i].passed

\* C1: the Match Result built for a policy has eligible = true exactly when
\* every evaluation record of an Eligibility rule of the policy has
\* passed = true; with no Eligibility rule eligible is true.
C1_EligibleIffAllEligibilityPassed ==
    scoring.called =>
        (scoring.result.eligible
            <=> \A i \in 1..Len(ScoredRules) :
                    ScoredRules[i].rule_type = "eligibility" => ScoredPassed(i))

C1_Witness ==
    /\ scoring.called
    /\ Len(ScoredRules) = 2
    /\ ScoredRules[1].rule_type = "scoring" /\ ~ScoredPassed(1)
    /\ ScoredRules[2].rule_type = "eligibility" /\ ScoredPassed(2)
    /\ scoring.result.eligible

\* C2: every Match Result has 0 <= fit_score <= 100, whatever integer
\* weights the rule editing endpoints and ingestion accepted.
C2_FitScoreInRange ==
    scoring.called => (0 <= scoring.result.fit_score /\ scoring.result.fit_score <= 100)

AllWeightsNonNegative(rules) == \A i \in 1..Len(rules) : rules[i].weight >= 0

\* C3: with score the summed weights of the passed Scoring rules and
\* maxScore the summed weights of all Scoring rules, fit_score is
\* floor(100 * score / maxScore) in exact integer arithmetic when
\* maxScore > 0, and 100 if eligible else 0 when maxScore = 0. Stated for
\* the rule sets whose weights are all non-negative.
C3_FitScoreIsExactFloor ==
    (scoring.called /\ AllWeightsNonNegative(ScoredRules)) =>
        LET score == TotalScore(ScoredRules, scoring.result.evaluations)
            maxScore == MaxScore(ScoredRules)
        IN  scoring.result.fit_score =
                IF maxScore > 0 THEN (100 * score) \div maxScore
                ELSE IF scoring.result.eligible THEN 100 ELSE 0

\* C26: the evaluations of a Match Result are one record per rule of the
\* policy, in the policy's rule order: as many records as rules, the i-th
\* record carrying the id of the i-th rule.
C26_EvaluationsFollowRuleOrder ==
    scoring.called =>
        /\ Len(scoring.result.evaluations) = Len(scoring.rules)
        /\ \A i \in 1..Len(scoring.rules) :
              scoring.result.evaluations[i].rule_id = scoring.rules[i].id

C26_Witness ==
    /\ scoring.called
    /\ Len(scoring.rules) = 2
    /\ scoring.rules[1].id # scoring.rules[2].id
    /\ scoring.result.evaluations[1].passed /\ ~scoring.result.evaluations[2].passed
    /\ scoring.result.evaluations[2].rule_id = scoring.rules[2].id

----------------------------------------------------------------------------
(* ValidateSpec: the form validation applied to one submitted field        *)

\* What the options column of a definition can hold: create_parameter and
\* update_parameter take any dict or null, ingestion stores what the
\* extraction returned.
ValidateParams ==
    {ParamDef("fico", sFICO, type, options, TRUE) :
        type \in DataType,
        options \in {NoOptions, EmptyOptions, OtherKeyOptions, ValuesOptions(<<>>),
                     ValuesOptions(<<VStr(sTrucking), VStr(sRetail)>>)}}

\* Submitted JSON values.
ValidateValues ==
    {VInt(700), VFloat(15), VBool(TRUE), VBool(FALSE), VStr(sRetail),
     VStr(<<"r","e","t","a","i","l">>), VStr(sOther), VStr(<<"7","0","0">>),
     Null, VList(<<VStr(sRetail)>>)}

ValidateInit ==
    /\ policy_rules = EmptyMap
    /\ applications = EmptyMap
    /\ match_results = {}
    /\ task = EmptyMap
    /\ ingestion = EmptyMap
    /\ next_rule_id = 1
    /\ evaluation = NoCall
    /\ scoring = NoCall
    /\ \E param \in ValidateParams, value \in ValidateValues :
          /\ parameters = [k \in {param.key_name} |-> param]
          /\ key_rows = [k \in {param.key_name} |-> 1]
          /\ validation = [called |-> FALSE, key |-> param.key_name,
                           value |-> value, accepted |-> FALSE]

\* validate_form_data on the form {key: value}.
Validate ==
    /\ ~validation.called
    /\ validation' = [validation EXCEPT
          !.called = TRUE,
          !.accepted = validate_form_data([k \in {validation.key} |-> validation.value],
                                          parameters)]
    /\ UNCHANGED <<parameters, key_rows, ingestion, policy_rules, applications, match_results, task,
                   next_rule_id, evaluation, scoring>>

ValidateSpec == ValidateInit /\ [][Validate]_vars

ValidatedParam == parameters[validation.key]

\* C9: a Number or Currency parameter accepts a value exactly when it is an
\* integer or floating-point scalar (booleans and strings are rejected), and
\* a Boolean parameter accepts only true and false.
C9_NumericTypeCheck ==
    validation.called =>
        /\ ValidatedParam.data_type \in {"number", "currency"}
              => (validation.accepted <=> IsIntOrFloatStrict(validation.value))
        /\ ValidatedParam.data_type = "boolean"
              => (validation.accepted <=> validation.value.t = "bool")

\* The options of a definition as the list of allowed strings: none when the
\* column is null, empty or has no 'values'.
OptionStrings(param) ==
    LET allowed == AllowedValues(param.options)
    IN  {allowed.l[i].s : i \in {j \in 1..Len(allowed.l) : allowed.l[j].t = "str"}}

\* C10: a Select parameter accepts a value exactly when it is a string equal
\* (case-sensitive) to one of the parameter's options, for every options
\* value the registry can store, a definition without options included.
C10_SelectMembership ==
    (validation.called /\ ValidatedParam.data_type = "select") =>
        (validation.accepted
            <=> (validation.value.t = "str"
                 /\ validation.value.s \in OptionStrings(ValidatedParam)))

----------------------------------------------------------------------------
(* Spec: submissions, the background matching workflow and policy deletion *)

MaxApplications == 1

\* Two policies left by earlier ingestions. The second rule of policy 1
\* orders a number against a string, which Python refuses.
WorkflowPolicies ==
    [p \in {1, 2} |->
        IF p = 1
        THEN <<Rule(1, "fico", "gte", VInt(650), "eligibility", 0, Null),
               Rule(2, "fico", "gt", VStr(sLow), "scoring", 10, Null)>>
        ELSE <<Rule(3, "btype", "in", VList(<<VStr(sRetail)>>), "scoring", 5, Null)>>]

\* Submitted forms: well-formed ones, a boolean for a number, a value of a
\* select without options, a select value outside the options, a string for
\* a number, an unknown key.
SubmittedForms ==
    {[k \in {"fico", "btype"} |-> IF k = "fico" THEN VInt(700) ELSE VStr(sRetail)],
     [k \in {"fico"} |-> VBool(TRUE)],
     [k \in {"region"} |-> VStr(sOther)],
     [k \in {"btype"} |-> VStr(sOther)],
     [k \in {"fico"} |-> VStr(<<"7","0","0">>)],
     [k \in {"zip"} |-> VInt(700)]}

Init ==
    /\ parameters = Registry
    /\ policy_rules = WorkflowPolicies
    /\ applications = EmptyMap
    /\ match_results = {}
    /\ task = EmptyMap
    /\ key_rows = [k \in DOMAIN parameters |-> 1]
    /\ ingestion = EmptyMap
    /\ next_rule_id = 4
    /\ evaluation = NoCall
    /\ validation = NoCall
    /\ scoring = NoCall

\* One call of match_application; run numbers the calls made for the same
\* application (the route schedules the first).
NewTask ==
    [pc |-> "load", form_data |-> EmptyMap, policies |-> EmptyMap,
     pending |-> {}, cause |-> "none", run |-> 1, parameters |-> EmptyMap]

\* MatchResult.id defaults to a fresh uuid4: every object added to a session
\* is a row of its own, told apart here by application, call and policy.
MatchResultRow(id, scored) ==
    [k \in DOMAIN scored \cup {"id"} |-> IF k = "id" THEN id ELSE scored[k]]

Extend(f, k, v) == [x \in DOMAIN f \cup {k} |-> IF x = k THEN v ELSE f[x]]

\* POST /applications: validate, insert with status processing, schedule
\* match_application. A failed validation raises HTTP 400 before anything is
\* written.
create_application(form_data) ==
    LET id == Cardinality(DOMAIN applications) + 1 IN
    /\ id <= MaxApplications
    /\ IF validate_form_data(form_data, parameters)
       THEN /\ applications' = Extend(applications, id,
                    [form_data |-> form_data, status |-> "processing"])
            /\ task' = Extend(task, id, NewTask)
       ELSE UNCHANGED <<applications, task>>
    /\ UNCHANGED <<parameters, key_rows, ingestion, policy_rules, match_results, next_rule_id,
                   evaluation, validation, scoring>>

TaskUnchanged ==
    UNCHANGED <<parameters, key_rows, ingestion, policy_rules, next_rule_id, evaluation, validation, scoring>>

\* Lines 40-49: load the application; return when it is not found.
LoadApplication(a) ==
    /\ task[a].pc = "load"
    /\ IF a \in DOMAIN applications
       THEN task' = [task EXCEPT ![a].pc = "policies",
                                 ![a].form_data = applications[a].form_data]
       ELSE task' = [task EXCEPT ![a].pc = "done"]
    /\ UNCHANGED <<applications, match_results>>
    /\ TaskUnchanged

\* Lines 52-55: the policies with their rules, as committed at this moment.
FetchPolicies(a) ==
    /\ task[a].pc = "policies"
    /\ task' = [task EXCEPT ![a].pc = "evaluate", ![a].policies = policy_rules]
    /\ UNCHANGED <<applications, match_results>>
    /\ TaskUnchanged

\* Lines 58-100: fetch the parameters (all rows, active or not) for their
\* labels, run the loop over the policies, add one
\* MatchResult per policy to the session and set the status in the session.
\* Nothing is visible to other sessions yet. An exception out of
\* evaluate_rule leaves the session block for the handler.
EvaluatePolicies(a) ==
    /\ task[a].pc = "evaluate"
    /\ IF \E p \in DOMAIN task[a].policies :
             PolicyRaises(task[a].policies[p], task[a].form_data)
       THEN task' = [task EXCEPT ![a].pc = "except", ![a].cause = "evaluate",
                                 ![a].parameters = parameters]
       ELSE task' = [task EXCEPT
               ![a].pc = "commit",
               ![a].parameters = parameters,
               ![a].pending =
                   {MatchResultRow(<<a, task[a].run, p>>,
                        ScorePolicy(p, task[a].policies[p], a, task[a].form_data,
                                    ParamLabels(parameters))) :
                       p \in DOMAIN task[a].policies}]
    /\ UNCHANGED <<applications, match_results>>
    /\ TaskUnchanged

\* Rows of a commit that flushes only the results of eligible policies.
FlushedRowsEligibleOnly(pending) == {r \in pending : r.eligible}

\* Rows of a commit that flushes only the first policy's result.
FlushedRowsFirstPolicy(pending) == {r \in pending : r.policy_id = 1}

\* The rows db.commit() inserts: every MatchResult added to the session.
FlushedRows(pending) == pending

\* match_results.policy_id and application_id are foreign keys.
ForeignKeysHold(a, pending) ==
    /\ a \in DOMAIN applications
    /\ \A r \in pending : r.policy_id \in DOMAIN policy_rules

\* Line 102: one transaction inserts the results and updates the status.
Commit(a) ==
    /\ task[a].pc = "commit"
    /\ ForeignKeysHold(a, task[a].pending)
    /\ match_results' = match_results \cup FlushedRows(task[a].pending)
    /\ applications' = [applications EXCEPT ![a].status = "completed"]
    /\ task' = [task EXCEPT ![a].pc = "done", ![a].pending = {}]
    /\ TaskUnchanged

\* Line 102 raises: a violated foreign key (a policy deleted since it was
\* read) or a persistence failure. The session is closed without a commit.
CommitFails(a) ==
    /\ task[a].pc = "commit"
    /\ task' = [task EXCEPT ![a].pc = "except", ![a].cause = "commit",
                            ![a].pending = {}]
    /\ UNCHANGED <<applications, match_results>>
    /\ TaskUnchanged

\* One of the three selects raises (connection lost).
QueryFails(a) ==
    /\ task[a].pc \in {"load", "policies", "evaluate"}
    /\ task' = [task EXCEPT ![a].pc = "except", ![a].cause = "query"]
    /\ UNCHANGED <<applications, match_results>>
    /\ TaskUnchanged

\* Lines 113-121: a new session loads the application and commits FAILED.
HandlerMarksFailed(a) ==
    /\ task[a].pc = "except"
    /\ IF a \in DOMAIN applications
       THEN applications' = [applications EXCEPT ![a].status = "failed"]
       ELSE UNCHANGED applications
    /\ task' = [task EXCEPT ![a].pc = "done"]
    /\ UNCHANGED match_results
    /\ TaskUnchanged

\* Lines 122-123: the handler's own select or commit raises; except: pass.
HandlerFails(a) ==
    /\ task[a].pc = "except"
    /\ task' = [task EXCEPT ![a].pc = "done"]
    /\ UNCHANGED <<applications, match_results>>
    /\ TaskUnchanged

\* DELETE /policies/{policy_id}: the policy, its rules and its match results
\* (cascade="all, delete-orphan").
delete_policy(policy_id) ==
    /\ policy_id \in DOMAIN policy_rules
    /\ policy_rules' = [p \in DOMAIN policy_rules \ {policy_id} |-> policy_rules[p]]
    /\ match_results' = {r \in match_results : r.policy_id # policy_id}
    /\ UNCHANGED <<parameters, key_rows, ingestion, applications, task, next_rule_id, evaluation,
                   validation, scoring>>

Next ==
    \/ \E form_data \in SubmittedForms : create_application(form_data)
    \/ \E a \in DOMAIN task : LoadApplication(a)
    \/ \E a \in DOMAIN task : FetchPolicies(a)
    \/ \E a \in DOMAIN task : EvaluatePolicies(a)
    \/ \E a \in DOMAIN task : Commit(a)
    \/ \E a \in DOMAIN task : CommitFails(a)
    \/ \E a \in DOMAIN task : QueryFails(a)
    \/ \E a \in DOMAIN task : HandlerMarksFailed(a)
    \/ \E a \in DOMAIN task : HandlerFails(a)
    \/ \E p \in DOMAIN policy_rules : delete_policy(p)

Spec == Init /\ [][Next]_vars

\* The steps of the background task of application a. Starlette runs a
\* scheduled task to its end once the response is sent, and every step of
\* match_application returns or raises: a task that can step does step.
MatchStep(a) ==
    /\ a \in DOMAIN task
    /\ \/ LoadApplication(a) \/ FetchPolicies(a) \/ EvaluatePolicies(a)
       \/ Commit(a) \/ CommitFails(a) \/ QueryFails(a)
       \/ HandlerMarksFailed(a) \/ HandlerFails(a)

LiveSpec == Spec /\ \A a \in 1..MaxApplications : WF_vars(MatchStep(a))

----------------------------------------------------------------------------
(* Claims about the matching workflow                                      *)

ResultsOf(a) == {r \in match_results : r.application_id = a}

PolicyIdsOf(results) == {r.policy_id : r \in results}

\* Applying the rule's operator to the stored value raises in Python.
OperatorErrors(rule, form_data) ==
    /\ rule.parameter_key \in DOMAIN form_data
    /\ ApplyOperator(rule.operator, form_data[rule.parameter_key],
                     rule.value_comparison) = "TypeError"

\* What the rule yields on its own: the operator's verdict on the stored
\* value, false for a missing key.
PassesAlone(rule, form_data) ==
    /\ rule.parameter_key \in DOMAIN form_data
    /\ ApplyOperator(rule.operator, form_data[rule.parameter_key],
                     rule.value_comparison) = "true"

RunHadOperatorError(a) ==
    \E p \in DOMAIN task[a].policies : \E i \in 1..Len(task[a].policies[p]) :
        OperatorErrors(task[a].policies[p][i], task[a].form_data)

\* C5: an error raised while applying one rule's operator never leaves
\* evaluate_rule: no run reaches the exception handler because of it; the
\* run's results hold one result per policy read, in which the failing rule
\* has passed = false and every other rule has the verdict it has on its
\* own; and a run that met no other failure ends with status Completed and
\* one committed Match Result per policy (of those not deleted since).
C5_OperatorErrorContained ==
    \A a \in DOMAIN task :
        /\ task[a].cause # "evaluate"
        /\ task[a].pc = "commit" =>
              /\ PolicyIdsOf(task[a].pending) = DOMAIN task[a].policies
              /\ \A r \in task[a].pending :
                    LET rules == task[a].policies[r.policy_id] IN
                    /\ Len(r.evaluations) = Len(rules)
                    /\ \A i \in 1..Len(rules) :
                          IF OperatorErrors(rules[i], task[a].form_data)
                          THEN r.evaluations[i].passed = FALSE
                          ELSE r.evaluations[i].passed
                                  = PassesAlone(rules[i], task[a].form_data)
        /\ (task[a].pc = "done" /\ task[a].cause = "none" /\ a \in DOMAIN applications) =>
              /\ applications[a].status = "completed"
              /\ PolicyIdsOf(ResultsOf(a)) = DOMAIN task[a].policies \cap DOMAIN policy_rules

C5_Witness ==
    \E a \in DOMAIN task :
        /\ task[a].pc = "done" /\ task[a].cause = "none"
        /\ RunHadOperatorError(a)
        /\ applications[a].status = "completed"
        /\ Cardinality(ResultsOf(a)) = 2
        /\ \E r \in ResultsOf(a) :
              /\ r.policy_id = 1
              /\ r.evaluations[1].passed /\ ~r.evaluations[2].passed
              /\ r.eligible

\* C6: after a matching run that met an unrecoverable error (a failed
\* query, a failed commit, a policy deleted under the run) no Match Result of
\* the application is retained and, the application record existing, its
\* status is Failed.
C6_FailedRunLeavesNothingAndFailed ==
    \A a \in DOMAIN task :
        (task[a].pc = "done" /\ task[a].cause # "none") =>
            /\ ResultsOf(a) = {}
            /\ a \in DOMAIN applications => applications[a].status = "failed"

\* C7: in every state an application's Match Results are either none or the
\* complete set of its run, one per policy the run read (of those not
\* deleted since, whose results the deletion cascades to), and they are
\* present only with status Completed: results and status appear in one
\* commit.
C7_ResultsAllOrNothing ==
    \A a \in DOMAIN applications :
        \/ ResultsOf(a) = {}
        \/ /\ applications[a].status = "completed"
           /\ PolicyIdsOf(ResultsOf(a)) = DOMAIN task[a].policies \cap DOMAIN policy_rules
           /\ Cardinality(ResultsOf(a)) = Cardinality(PolicyIdsOf(ResultsOf(a)))

C7_Witness ==
    \E a \in DOMAIN applications :
        /\ applications[a].status = "completed"
        /\ Cardinality(ResultsOf(a)) = 2
        /\ DOMAIN task[a].policies = {1, 2}
        /\ DOMAIN policy_rules = {1, 2}

----------------------------------------------------------------------------
(* Repeated matching runs beside edits of the registry                     *)

MaxMatchRuns == 2

sScore == <<"S","c","o","r","e">>

\* PUT /parameters/{key_name}: 404 for an unknown key; otherwise the fields
\* present in the body (exclude_unset) are assigned and committed. key_name
\* is not a field of ParameterDefinitionUpdate.
update_parameter(key_name, update_dict) ==
    /\ key_name \in DOMAIN parameters
    /\ parameters' = [parameters EXCEPT ![key_name] =
           [field \in DOMAIN @ |->
               IF field \in DOMAIN update_dict THEN update_dict[field] ELSE @[field]]]
    /\ UNCHANGED <<key_rows, ingestion, policy_rules, applications, match_results, task,
                   next_rule_id, evaluation, validation, scoring>>

\* Request bodies of update_parameter: a new display label.
UpdateDicts == {[field \in {"display_label"} |-> sScore]}

\* match_application(application_id) called again for an application whose
\* earlier call has returned: the function starts over from its first line.
Reinvoke(a) ==
    /\ task[a].pc = "done"
    /\ task[a].run < MaxMatchRuns
    /\ task' = [task EXCEPT ![a] = [NewTask EXCEPT !.run = task[a].run + 1]]
    /\ UNCHANGED <<applications, match_results>>
    /\ TaskUnchanged

RetryNext ==
    \/ Next
    \/ \E a \in DOMAIN task : Reinvoke(a)
    \/ \E key_name \in DOMAIN parameters, update_dict \in UpdateDicts :
          update_parameter(key_name, update_dict)

RetrySpec == Init /\ [][RetryNext]_vars

\* C21: evaluate_rule is deterministic in (rule, form_data): two Match
\* Results of the same application and policy, hence built from the same
\* form_data and the same rules (neither is ever edited here), carry
\* identical evaluation records field by field, whatever else changed
\* between the two runs.
C21_EvaluateRuleDeterministic ==
    \A r1 \in match_results : \A r2 \in match_results :
        (r1.application_id = r2.application_id /\ r1.policy_id = r2.policy_id)
            => r1.evaluations = r2.evaluations

\* C22: re-invoking the matching workflow is idempotent: an application
\* never holds two Match Results for the same policy, and after a run that
\* completed its results are one per policy the run read (of those not
\* deleted since).
C22_RepeatRunLeavesOneResultPerPolicy ==
    \A a \in DOMAIN applications :
        /\ \A r1 \in ResultsOf(a) : \A r2 \in ResultsOf(a) :
              r1.policy_id = r2.policy_id => r1 = r2
        /\ (task[a].pc = "done" /\ task[a].cause = "none") =>
              Cardinality(ResultsOf(a))
                  = Cardinality(DOMAIN task[a].policies \cap DOMAIN policy_rules)

\* C23: a matching run that ends with status Completed has written exactly
\* one Match Result for each policy the run read and none for any other
\* policy: at the step that makes the status Completed the rows written are
\* one per policy read, and the application's Match Results are as many as
\* the policies read, with pairwise distinct policy_id.
C23_CompletedRunWroteOnePerPolicy ==
    [][\A a \in DOMAIN applications :
          (applications[a].status # "completed" /\ applications'[a].status = "completed") =>
              LET written == match_results' \ match_results
                  results == {r \in match_results' : r.application_id = a}
              IN  /\ PolicyIdsOf(written) = DOMAIN task[a].policies
                  /\ Cardinality(written) = Cardinality(DOMAIN task[a].policies)
                  /\ \A r \in written : r.application_id = a
                  /\ PolicyIdsOf(results) = DOMAIN task[a].policies
                  /\ Cardinality(results) = Cardinality(DOMAIN task[a].policies)]_vars

\* A completed run that read a single policy (the other was deleted before
\* the run fetched the policies) and left that policy's single result.
C23_Witness ==
    \E a \in DOMAIN applications :
        /\ applications[a].status = "completed"
        /\ task[a].pc = "done"
        /\ DOMAIN task[a].policies = {1}
        /\ Cardinality(ResultsOf(a)) = 1
        /\ \E r \in ResultsOf(a) : r.policy_id = 1 /\ ~r.eligible

\* C24: every matching workflow started for an existing application
\* eventually ends with the application's status Completed or Failed, never
\* leaving it at Processing, and the only status transitions are Processing
\* to Completed and Processing to Failed.
C24_EveryRunEndsCompletedOrFailed ==
    /\ \A a \in 1..MaxApplications :
          (a \in DOMAIN task) ~>
              (/\ a \in DOMAIN task
               /\ task[a].pc = "done"
               /\ applications[a].status \in {"completed", "failed"})
    /\ [][\A a \in DOMAIN applications :
            applications'[a].status # applications[a].status =>
                /\ applications[a].status = "processing"
                /\ applications'[a].status \in {"completed", "failed"}]_vars

\* The type rules of the registry: strings for String and Select, integer
\* or floating-point scalars for Number and Currency, booleans for Boolean.
TypeMatches(value, data_type) ==
    IF data_type \in {"string", "select"} THEN value.t = "str"
    ELSE IF data_type \in {"number", "currency"} THEN IsIntOrFloatStrict(value)
    ELSE value.t = "bool"

\* A form with an unknown field name, a value of the wrong type, or a Select
\* value outside the options.
BadSubmission(form_data, params) ==
    \E key \in DOMAIN form_data :
        \/ key \notin DOMAIN ActiveParams(params)
        \/ ~TypeMatches(form_data[key], params[key].data_type)
        \/ /\ params[key].data_type = "select"
           /\ form_data[key].s \notin OptionStrings(params[key])

\* C8: a submission whose form_data has an unknown field name, a value of
\* the wrong type or a Select value outside the options creates no
\* Application and starts no matching workflow.
C8_BadSubmissionCreatesNothing ==
    [][\A a \in (DOMAIN applications' \cup DOMAIN task') \ DOMAIN applications :
          ~BadSubmission(applications'[a].form_data, parameters)]_vars

----------------------------------------------------------------------------
(* IngestSpec: the parameter registry and the policies under concurrent    *)
(* process_lender_pdf runs and the admin endpoints                         *)

MaxIngestions == 2      \* process_lender_pdf runs

sTruck == <<"T","r","u","c","k">>

\* Rows of parameter_definitions with this key_name.
Rows(rows, key) == IF key \in DOMAIN rows THEN rows[key] ELSE 0

RECURSIVE NewDefinitions(_, _)
\* Lines 121-134: the definitions the session adds, in order. param_map
\* starts as the fetched (active) keys and gains each key that is added.
NewDefinitions(new_parameters, param_map) ==
    IF new_parameters = <<>> THEN <<>>
    ELSE LET new_param == Head(new_parameters) IN
         IF new_param.key_name \in param_map
         THEN NewDefinitions(Tail(new_parameters), param_map)
         ELSE <<new_param>> \o NewDefinitions(Tail(new_parameters),
                                              param_map \cup {new_param.key_name})

KeysOf(defs) == {defs[i].key_name : i \in 1..Len(defs)}

FirstWithKey(defs, key) ==
    defs[CHOOSE i \in 1..Len(defs) :
            /\ defs[i].key_name = key
            /\ \A j \in 1..(i - 1) : defs[j].key_name # key]

RowsAdded(defs, key) == Cardinality({i \in 1..Len(defs) : defs[i].key_name = key})

\* The table after the rows are written, whatever index it has.
Inserted(params, rows, defs) ==
    [ok |-> TRUE,
     parameters |-> [k \in DOMAIN params \cup KeysOf(defs) |->
                        IF k \in DOMAIN params THEN params[k] ELSE FirstWithKey(defs, k)],
     key_rows |-> [k \in DOMAIN rows \cup KeysOf(defs) |->
                        Rows(rows, k) + RowsAdded(defs, k)]]

\* A table without the unique index on key_name.
InsertDefinitionsNoUnique(params, rows, defs) == Inserted(params, rows, defs)

\* An insert that replaces the row on a key conflict.
InsertDefinitionsUpsert(params, rows, defs) ==
    [ok |-> TRUE,
     parameters |-> [k \in DOMAIN params \cup KeysOf(defs) |->
                        IF k \in KeysOf(defs) THEN FirstWithKey(defs, k) ELSE params[k]],
     key_rows |-> [k \in DOMAIN rows \cup KeysOf(defs) |-> 1]]

\* The commit of added ParameterDefinition rows: key_name is unique, so the
\* commit raises IntegrityError and writes nothing when a key already has a
\* row or comes twice.
InsertDefinitions(params, rows, defs) ==
    IF \E k \in KeysOf(defs) : Rows(rows, k) + RowsAdded(defs, k) > 1
    THEN [ok |-> FALSE, parameters |-> params, key_rows |-> rows]
    ELSE Inserted(params, rows, defs)

\* POST /parameters: 400 when the key exists, else insert and commit.
create_parameter(parameter) ==
    /\ parameter.key_name \notin DOMAIN parameters
    /\ LET written == InsertDefinitions(parameters, key_rows, <<parameter>>) IN
          /\ written.ok
          /\ parameters' = written.parameters
          /\ key_rows' = written.key_rows
    /\ UNCHANGED <<policy_rules, applications, match_results, task, next_rule_id,
                   evaluation, validation, scoring, ingestion>>

\* ondelete="CASCADE" of policy_rules.parameter_key: the rules that reference
\* the deleted key go with it.
CascadeRules(rules, key) ==
    [p \in DOMAIN rules |-> SelectSeq(rules[p], LAMBDA rule : rule.parameter_key # key)]

\* DELETE /parameters/{key_name}: is_active = False, or with hard_delete the
\* row is deleted.
delete_parameter(key_name, hard_delete) ==
    /\ key_name \in DOMAIN parameters
    /\ IF hard_delete
       THEN /\ parameters' = [k \in DOMAIN parameters \ {key_name} |-> parameters[k]]
            /\ key_rows' = [k \in DOMAIN key_rows \ {key_name} |-> key_rows[k]]
            /\ policy_rules' = CascadeRules(policy_rules, key_name)
       ELSE /\ parameters' = [parameters EXCEPT ![key_name].is_active = FALSE]
            /\ UNCHANGED <<key_rows, policy_rules>>
    /\ UNCHANGED <<applications, match_results, task, next_rule_id, evaluation,
                   validation, scoring, ingestion>>

\* An extraction result as _parse_gemini_response returns it.
Batch(new_parameters, rules) == [new_parameters |-> new_parameters, rules |-> rules]

ExtractedRule(key) == Rule(0, key, "gte", VInt(650), "eligibility", 0, Null)

\* str.lower() on the characters of the model's alphabet.
LowerChar(c) ==
    IF Ord(c) \in Ord("A")..Ord("Z") THEN Alphabet[Ord(c) - Ord("A") + Ord("a")] ELSE c

Lower(value) == [i \in 1..Len(value) |-> LowerChar(value[i])]

\* A conversion that looks the string up as it is, without lower().
convert_rule_operator_exact(value) ==
    IF \E op \in RuleOperator : OpChars(op) = value
    THEN CHOOSE op \in RuleOperator : OpChars(op) = value
    ELSE "eq"

\* convert_rule_operator: mapping.get(value.lower(), RuleOperator.EQ)
convert_rule_operator(value) ==
    LET v == Lower(value) IN
    CASE v = <<"g","t">> -> "gt"
      [] v = <<"l","t">> -> "lt"
      [] v = <<"e","q">> -> "eq"
      [] v = <<"n","e","q">> -> "neq"
      [] v = <<"g","t","e">> -> "gte"
      [] v = <<"l","t","e">> -> "lte"
      [] v = <<"i","n">> -> "in"
      [] v = <<"c","o","n","t","a","i","n","s">> -> "contains"
      [] OTHER -> "eq"

sEligibility == <<"e","l","i","g","i","b","i","l","i","t","y">>
sScoring == <<"s","c","o","r","i","n","g">>

\* convert_rule_type: mapping.get(value.lower(), RuleType.ELIGIBILITY)
convert_rule_type(value) ==
    LET v == Lower(value) IN
    CASE v = sEligibility -> "eligibility"
      [] v = sScoring -> "scoring"
      [] OTHER -> "eligibility"

\* One element of the extraction's "rules": the strings as Gemini wrote them.
RuleData(parameter, operator, type) ==
    [parameter |-> parameter, operator |-> operator, value |-> VInt(650),
     type |-> type, weight |-> 0, reason |-> Null]

ExtractedData(key) == RuleData(key, <<"g","t","e">>, sEligibility)

\* Lines 149-158: the PolicyRule built from one rule_data.
PolicyRuleOf(rule_data) ==
    Rule(0, rule_data.parameter, convert_rule_operator(rule_data.operator),
         rule_data.value, convert_rule_type(rule_data.type), rule_data.weight,
         rule_data.reason)

ConvertRules(rules) == [i \in 1..Len(rules) |-> PolicyRuleOf(rules[i])]

\* Rules on fico whose operator and type strings are an upper-case and a
\* capitalised spelling, and strings outside the enumerations.
UnrecognizedRules ==
    <<RuleData("fico", <<"G","T","E">>, <<"S","c","o","r","i","n","g">>),
      RuleData("fico", <<"b","e","t","w","e","e","n">>, <<"b","o","n","u","s">>)>>

\* Extraction results: a new field defined by two rules; an inline
\* definition of fico and one of region, keys the registry has; a new field
\* beside a rule on a key nobody defines; rules with operator and type
\* strings in other spellings or outside the enumerations.
IngestBatches ==
    {Batch(<<ParamDef("truck", sTruck, "number", NoOptions, TRUE),
             ParamDef("truck", sOther, "string", NoOptions, TRUE)>>,
           <<ExtractedData("truck"), ExtractedData("truck")>>),
     Batch(<<ParamDef("fico", sOther, "string", NoOptions, TRUE)>>,
           <<ExtractedData("fico")>>),
     Batch(<<ParamDef("region", sOther, "string", NoOptions, TRUE)>>,
           <<ExtractedData("region")>>),
     Batch(<<ParamDef("truck", sTruck, "number", NoOptions, TRUE)>>,
           <<ExtractedData("truck"), ExtractedData("ghost")>>),
     Batch(<<>>, UnrecognizedRules)}

\* The registry at the start: fico, and region deactivated earlier.
IngestRegistry ==
    [k \in {"fico", "region"} |->
        IF k = "fico" THEN ParamDef("fico", sFICO, "number", NoOptions, TRUE)
        ELSE ParamDef("region", sRegion, "select", NoOptions, FALSE)]

IngestInit ==
    /\ parameters = IngestRegistry
    /\ key_rows = [k \in DOMAIN IngestRegistry |-> 1]
    /\ policy_rules = EmptyMap
    /\ applications = EmptyMap
    /\ match_results = {}
    /\ task = EmptyMap
    /\ next_rule_id = 1
    /\ evaluation = NoCall
    /\ validation = NoCall
    /\ scoring = NoCall
    /\ ingestion = EmptyMap

IngestUnchanged ==
    UNCHANGED <<applications, match_results, task, evaluation, validation, scoring>>

\* Lines 95-100: the run starts and reads the active definitions.
FetchParameters(r) ==
    /\ r = Cardinality(DOMAIN ingestion) + 1
    /\ r <= MaxIngestions
    /\ ingestion' = Extend(ingestion, r,
          [pc |-> "extract",
           param_keys |-> {k \in DOMAIN parameters : parameters[k].is_active},
           batch |-> Batch(<<>>, <<>>),
           added |-> <<>>,
           cause |-> "none"])
    /\ UNCHANGED <<parameters, key_rows, policy_rules, next_rule_id>>
    /\ IngestUnchanged

\* Lines 113-118: extract_rules_from_pdf returns.
ExtractRules(r, batch) ==
    /\ ingestion[r].pc = "extract"
    /\ ingestion' = [ingestion EXCEPT ![r].pc = "reconcile", ![r].batch = batch]
    /\ UNCHANGED <<parameters, key_rows, policy_rules, next_rule_id>>
    /\ IngestUnchanged

\* A failed extraction taken for an extraction without rules.
ExtractionFailsAsEmpty(r) ==
    /\ ingestion[r].pc = "extract"
    /\ ingestion' = [ingestion EXCEPT ![r].pc = "reconcile", ![r].cause = "extraction"]
    /\ UNCHANGED <<parameters, key_rows, policy_rules, next_rule_id>>
    /\ IngestUnchanged

\* The API call raises, or _parse_gemini_response raises on text that is not
\* JSON: the exception reaches the handler of lines 168-171.
ExtractionFails(r) ==
    /\ ingestion[r].pc = "extract"
    /\ ingestion' = [ingestion EXCEPT ![r].pc = "failed", ![r].cause = "extraction"]
    /\ UNCHANGED <<parameters, key_rows, policy_rules, next_rule_id>>
    /\ IngestUnchanged

\* Lines 121-136: add the new definitions and commit them. A commit that
\* raises ends the run in the handler of lines 168-171.
ReconcileParameters(r) ==
    /\ ingestion[r].pc = "reconcile"
    /\ LET defs == NewDefinitions(ingestion[r].batch.new_parameters, ingestion[r].param_keys)
           written == InsertDefinitions(parameters, key_rows, defs)
       IN  IF written.ok
           THEN /\ parameters' = written.parameters
                /\ key_rows' = written.key_rows
                /\ ingestion' = [ingestion EXCEPT
                      ![r].pc = "materialize",
                      ![r].added = [i \in 1..Len(defs) |-> defs[i].key_name]]
           ELSE /\ ingestion' = [ingestion EXCEPT
                      ![r].pc = "failed",
                      ![r].cause = IF @ = "none" THEN "parameters" ELSE @]
                /\ UNCHANGED <<parameters, key_rows>>
    /\ UNCHANGED <<policy_rules, next_rule_id>>
    /\ IngestUnchanged

\* Lines 138-161: the policy and its rules, committed together. A rule whose
\* parameter_key has no definition fails the commit, which ends the run in
\* the handler of lines 168-171.
MaterializePolicy(r) ==
    /\ ingestion[r].pc = "materialize"
    /\ IF KeysResolve(ConvertRules(ingestion[r].batch.rules))
       THEN /\ ingest_policy(r, ConvertRules(ingestion[r].batch.rules))
            /\ ingestion' = [ingestion EXCEPT ![r].pc = "done"]
       ELSE /\ ingestion' = [ingestion EXCEPT
                  ![r].pc = "failed",
                  ![r].cause = IF @ = "none" THEN "rules" ELSE @]
            /\ UNCHANGED <<parameters, key_rows, policy_rules, next_rule_id>>
            /\ UNCHANGED <<applications, match_results, task, evaluation, validation>>
    /\ UNCHANGED scoring

IngestRules == {ExtractedRule("fico"), ExtractedRule("ghost")}

IngestNext ==
    \/ \E r \in 1..MaxIngestions : FetchParameters(r)
    \/ \E r \in DOMAIN ingestion, batch \in IngestBatches : ExtractRules(r, batch)
    \/ \E r \in DOMAIN ingestion : ExtractionFails(r)
    \/ \E r \in DOMAIN ingestion : ReconcileParameters(r)
    \/ \E r \in DOMAIN ingestion : MaterializePolicy(r)
    \/ create_parameter(ParamDef("truck", sTruck, "number", NoOptions, TRUE))

IngestSpec == IngestInit /\ [][IngestNext]_vars

----------------------------------------------------------------------------
(* ReferenceSpec: the rules' references to the registry under one          *)
(* ingestion run, the rule editing endpoints and parameter deletion        *)

MaxReferenceRuns == 1   \* process_lender_pdf runs beside the admin endpoints

\* The extraction results with a rule on fico or on a key nobody defines.
ReferenceBatches ==
    {batch \in IngestBatches :
        \E i \in 1..Len(batch.rules) : batch.rules[i].parameter \in {"fico", "ghost"}}

ReferenceNext ==
    \/ \E r \in 1..MaxReferenceRuns : FetchParameters(r)
    \/ \E r \in DOMAIN ingestion, batch \in ReferenceBatches : ExtractRules(r, batch)
    \/ \E r \in DOMAIN ingestion : ExtractionFails(r)
    \/ \E r \in DOMAIN ingestion : ReconcileParameters(r)
    \/ \E r \in DOMAIN ingestion : MaterializePolicy(r)
    \/ create_parameter(ParamDef("truck", sTruck, "number", NoOptions, TRUE))
    \/ \E key_name \in DOMAIN parameters, hard_delete \in BOOLEAN :
          delete_parameter(key_name, hard_delete)
    \/ \E p \in DOMAIN policy_rules, rules_in \in SeqsUpTo(IngestRules, 1) :
          update_policy_rules(p, rules_in) /\ UNCHANGED <<scoring, ingestion>>
    \/ \E p \in DOMAIN policy_rules, rule_in \in IngestRules :
          add_single_rule(p, rule_in) /\ UNCHANGED <<scoring, ingestion>>

ReferenceSpec == IngestInit /\ [][ReferenceNext]_vars

----------------------------------------------------------------------------
(* Claims about ingestion and the registry                                 *)

Ended(r) == ingestion[r].pc \in {"done", "failed"}

InlineKeys(r) == KeysOf(ingestion[r].batch.new_parameters)

RuleKeys(r) ==
    {ingestion[r].batch.rules[i].parameter : i \in 1..Len(ingestion[r].batch.rules)}

\* The run's record changes in this step: the step is one of the run's own.
StepOf(r) == r \notin DOMAIN ingestion \/ ingestion'[r] # ingestion[r]

\* C11: under any interleaving of ingestion runs and create_parameter calls
\* the registry holds at most one Parameter Definition per key, and the
\* definitions a run materialized have pairwise distinct keys, none of them a
\* key the run found in the registry.
C11_OneDefinitionPerKey ==
    /\ \A k \in DOMAIN key_rows : key_rows[k] <= 1
    /\ \A r \in DOMAIN ingestion :
          /\ \A i, j \in 1..Len(ingestion[r].added) :
                ingestion[r].added[i] = ingestion[r].added[j] => i = j
          /\ \A i \in 1..Len(ingestion[r].added) :
                ingestion[r].added[i] \notin ingestion[r].param_keys

\* A batch that defines truck twice was reconciled into one definition, and
\* another run or create_parameter met the key already taken.
C11_Witness ==
    /\ "truck" \in DOMAIN key_rows /\ key_rows["truck"] = 1
    /\ \E r \in DOMAIN ingestion :
          /\ Len(ingestion[r].batch.new_parameters) = 2
          /\ ingestion[r].added = <<"truck">>
    /\ \E r \in DOMAIN ingestion :
          /\ "truck" \in InlineKeys(r)
          /\ ingestion[r].added = <<>>
          /\ Ended(r)

\* Both runs fetched a registry without the key and both extracted an inline
\* definition of it.
BothDiscover(r1, r2, k) ==
    /\ r1 # r2
    /\ k \in InlineKeys(r1) \ ingestion[r1].param_keys
    /\ k \in InlineKeys(r2) \ ingestion[r2].param_keys

\* C12: when two runs both discover a new field with the same key and both
\* have ended, one definition with that key is stored and both runs
\* completed: each run's policy is stored with its rules on that key.
C12_BothDiscoverersComplete ==
    \A r1, r2 \in DOMAIN ingestion :
        (BothDiscover(r1, r2, "truck") /\ Ended(r1) /\ Ended(r2)
            /\ "ghost" \notin RuleKeys(r1) \cup RuleKeys(r2))
        => /\ Rows(key_rows, "truck") = 1
           /\ \A r \in {r1, r2} :
                 /\ ingestion[r].pc = "done"
                 /\ r \in DOMAIN policy_rules
                 /\ \E i \in 1..Len(policy_rules[r]) :
                       policy_rules[r][i].parameter_key = "truck"

\* C13: a run whose extraction failed changes nothing: none of its steps,
\* the fetch before the extraction included, changes the registry, the
\* policies or the rules, and after the failure it takes no further step.
C13_ExtractionFailureChangesNothing ==
    [][\A r \in DOMAIN ingestion' :
          /\ (StepOf(r) /\ (ingestion'[r].pc = "extract" \/ ingestion'[r].cause = "extraction"))
                => UNCHANGED <<parameters, key_rows, policy_rules>>
          /\ (r \in DOMAIN ingestion /\ ingestion[r].cause = "extraction")
                => ingestion'[r] = ingestion[r]]_vars

\* A run failed in extraction while another run stored definitions and a
\* policy.
C13_Witness ==
    /\ \E r \in DOMAIN ingestion :
          ingestion[r].pc = "failed" /\ ingestion[r].cause = "extraction"
    /\ \E r \in DOMAIN ingestion : ingestion[r].pc = "done" /\ ingestion[r].added # <<>>

\* C14: a run that has ended stored all of its new definitions, its policy
\* and its rules, or none of them: a failed run added no definition and no
\* policy.
C14_RunIsAllOrNothing ==
    \A r \in DOMAIN ingestion :
        ingestion[r].pc = "failed"
        => ingestion[r].added = <<>> /\ r \notin DOMAIN policy_rules

\* C15: a run that reached materialization with a rule on a key that is
\* neither in the registry nor defined inline drops that rule only: the run
\* completes, its policy is stored with the other rules, and no stored rule
\* is on the unresolved key.
C15_UnresolvedRuleDroppedAlone ==
    \A r \in DOMAIN ingestion :
        (Ended(r) /\ ingestion[r].cause \notin {"extraction", "parameters"}
            /\ "ghost" \in RuleKeys(r))
        => /\ ingestion[r].pc = "done"
           /\ r \in DOMAIN policy_rules
           /\ {policy_rules[r][i].parameter_key : i \in 1..Len(policy_rules[r])}
                 = RuleKeys(r) \ {"ghost"}

\* C16: no step of an ingestion run changes or removes a definition the
\* registry already holds, active or not, even when the batch carries an
\* inline definition with the same key.
C16_IngestionOnlyAdds ==
    [][\A r \in DOMAIN ingestion' :
          StepOf(r) => \A k \in DOMAIN parameters :
                          k \in DOMAIN parameters' /\ parameters'[k] = parameters[k]]_vars

\* Runs went past reconciliation with inline definitions of fico (active)
\* and of region (inactive) in their batches; both definitions are as seeded.
C16_Witness ==
    /\ \E r \in DOMAIN ingestion :
          "fico" \in InlineKeys(r) /\ ingestion[r].pc = "done"
    /\ \E r \in DOMAIN ingestion :
          "region" \in InlineKeys(r) /\ Ended(r)
    /\ parameters["fico"] = IngestRegistry["fico"]
    /\ parameters["region"] = IngestRegistry["region"]

Referenced(rules, key) ==
    \E p \in DOMAIN rules : \E i \in 1..Len(rules[p]) : rules[p][i].parameter_key = key

\* C17: a definition referenced by a rule is never removed: a step taken
\* while a rule references the key keeps the definition and every rule that
\* references it.
C17_ReferencedDefinitionStays ==
    [][\A k \in DOMAIN parameters :
          Referenced(policy_rules, k)
          => /\ k \in DOMAIN parameters'
             /\ \A p \in DOMAIN policy_rules :
                   p \in DOMAIN policy_rules'
                   /\ SelectSeq(policy_rules'[p], LAMBDA rule : rule.parameter_key = k)
                        = SelectSeq(policy_rules[p], LAMBDA rule : rule.parameter_key = k)]_vars

\* C18: every stored rule's parameter_key is the key of a definition in the
\* registry.
C18_RulesReferenceDefinitions ==
    \A p \in DOMAIN policy_rules : \A i \in 1..Len(policy_rules[p]) :
        policy_rules[p][i].parameter_key \in DOMAIN parameters

\* The run's policy was stored with a rule on fico, fico was then deleted
\* for good, and a rule remains in the policy.
C18_Witness ==
    /\ "fico" \notin DOMAIN parameters
    /\ \E r \in DOMAIN ingestion :
          /\ ingestion[r].pc = "done"
          /\ "fico" \in RuleKeys(r)
          /\ r \in DOMAIN policy_rules
          /\ policy_rules[r] = <<>>

----------------------------------------------------------------------------
(* Submission and matching beside the soft deactivation of parameters      *)

\* The registry with fico deactivated earlier.
DeactivateRegistry == [Registry EXCEPT !["fico"].is_active = FALSE]

\* Submitted forms: a select value, a value of the select without options,
\* and two forms holding fico.
DeactivateForms ==
    {[k \in {"btype"} |-> VStr(sRetail)],
     [k \in {"region"} |-> VStr(sOther)],
     [k \in {"fico"} |-> VInt(700)],
     [k \in {"fico", "btype"} |-> IF k = "fico" THEN VInt(700) ELSE VStr(sRetail)]}

DeactivateInit ==
    /\ parameters = DeactivateRegistry
    /\ policy_rules = WorkflowPolicies
    /\ applications = EmptyMap
    /\ match_results = {}
    /\ task = EmptyMap
    /\ key_rows = [k \in DOMAIN parameters |-> 1]
    /\ ingestion = EmptyMap
    /\ next_rule_id = 4
    /\ evaluation = NoCall
    /\ validation = NoCall
    /\ scoring = NoCall

DeactivateNext ==
    \/ \E form_data \in DeactivateForms : create_application(form_data)
    \/ \E a \in 1..MaxApplications : MatchStep(a)
    \/ \E key_name \in DOMAIN parameters : delete_parameter(key_name, FALSE)

DeactivateSpec == DeactivateInit /\ [][DeactivateNext]_vars

\* The run of application a read parameter key as inactive.
ReadInactive(a, key) ==
    /\ key \in DOMAIN task[a].parameters
    /\ ~task[a].parameters[key].is_active

\* C28: after a parameter K is soft-deactivated every rule stays stored
\* unchanged, and a matching run that read K as inactive, for an
\* application whose form_data holds K, produces for each rule on K the
\* evaluation record, label included, that a run before the deactivation
\* produces (the record of evaluate_rule under the labels of the registry
\* with K active).
C28_DeactivatedParameterKeepsFunctioning ==
    /\ policy_rules = WorkflowPolicies
    /\ \A a \in DOMAIN applications : \A r \in ResultsOf(a) :
          \A i \in 1..Len(r.evaluations) :
              LET rule == policy_rules[r.policy_id][i] IN
              (ReadInactive(a, rule.parameter_key)
                  /\ rule.parameter_key \in DOMAIN applications[a].form_data)
              => /\ r.evaluations[i]
                      = evaluate_rule(rule, applications[a].form_data, ParamLabels(Registry))
                 /\ r.evaluations[i].parameter_label
                      = Registry[rule.parameter_key].display_label

\* An application holding btype, submitted while btype was active, matched
\* by a run that read btype as inactive: the rule on btype passed under the
\* label Type.
C28_Witness ==
    \E a \in DOMAIN applications : \E r \in ResultsOf(a) :
        /\ "btype" \in DOMAIN applications[a].form_data
        /\ ReadInactive(a, "btype")
        /\ ~parameters["btype"].is_active
        /\ r.policy_id = 2
        /\ r.evaluations[1].passed
        /\ r.evaluations[1].parameter_label = sType

----------------------------------------------------------------------------
(* Claims about the conversion of extracted operator and type strings      *)

\* The operator a string names in any letter case, eq when it names none.
NamedOperator(chars) ==
    IF \E op \in RuleOperator : OpChars(op) = Lower(chars)
    THEN CHOOSE op \in RuleOperator : OpChars(op) = Lower(chars)
    ELSE "eq"

NamedType(chars) ==
    IF Lower(chars) = sScoring THEN "scoring" ELSE "eligibility"

\* C30: ingestion never rejects an extracted rule for an unrecognized
\* operator or rule type: a run fails at its rules only over a parameter key
\* without a definition, and a run that ended well stored every extracted
\* rule, with operator eq for an operator string outside the eight and as
\* an Eligibility rule for a type string that is neither eligibility nor
\* scoring; every stored rule's operator and rule_type are members of the
\* enumerations.
C30_UnrecognizedStringsGetDefaults ==
    /\ \A p \in DOMAIN policy_rules : \A i \in 1..Len(policy_rules[p]) :
          /\ policy_rules[p][i].operator \in RuleOperator
          /\ policy_rules[p][i].rule_type \in RuleType
    /\ \A r \in DOMAIN ingestion :
          LET rules == ingestion[r].batch.rules IN
          /\ (ingestion[r].pc = "failed" /\ ingestion[r].cause = "rules") =>
                \E i \in 1..Len(rules) : rules[i].parameter \notin DOMAIN parameters
          /\ ingestion[r].pc = "done" =>
                /\ r \in DOMAIN policy_rules
                /\ Len(policy_rules[r]) = Len(rules)
                /\ \A i \in 1..Len(rules) :
                      /\ policy_rules[r][i].parameter_key = rules[i].parameter
                      /\ policy_rules[r][i].operator = NamedOperator(rules[i].operator)
                      /\ policy_rules[r][i].rule_type = NamedType(rules[i].type)

\* A run that stored the rules written GTE / Scoring and between / bonus.
C30_Witness ==
    \E r \in DOMAIN ingestion :
        /\ ingestion[r].pc = "done"
        /\ ingestion[r].batch.rules = UnrecognizedRules
        /\ policy_rules[r][1].operator = "gte" /\ policy_rules[r][1].rule_type = "scoring"
        /\ policy_rules[r][2].operator = "eq" /\ policy_rules[r][2].rule_type = "eligibility"

====
